---- MODULE Spec2Model ----
(***************************************************************************)
(* Bytewords codec (bc-bytewords.c): the word table, the lazily built      *)
(* reverse lookup grid of decode_word, the encoder of the three styles and *)
(* the decoder with its length, token and checksum checks.                 *)
(*                                                                         *)
(* Characters are ASCII codes, strings are sequences of characters without *)
(* the terminating NUL, byte buffers are sequences over 0..255.  C offsets *)
(* are 0-based; sequences are 1-based, so in_p = k denotes in_string + k.  *)
(***************************************************************************)
EXTENDS Integers, Sequences, FiniteSets, TLC

(* static const char* bytewords: 256 four-letter words, 8 words per row *)
bytewords ==
  <<
    97, 98, 108, 101, 97, 99, 105, 100, 97, 108, 115, 111, 97, 112, 101, 120, 97, 113, 117, 97, 97, 114, 99, 104, 97, 116, 111, 109, 97, 117, 110, 116,
    97, 119, 97, 121, 97, 120, 105, 115, 98, 97, 99, 107, 98, 97, 108, 100, 98, 97, 114, 110, 98, 101, 108, 116, 98, 101, 116, 97, 98, 105, 97, 115,
    98, 108, 117, 101, 98, 111, 100, 121, 98, 114, 97, 103, 98, 114, 101, 119, 98, 117, 108, 98, 98, 117, 122, 122, 99, 97, 108, 109, 99, 97, 115, 104,
    99, 97, 116, 115, 99, 104, 101, 102, 99, 105, 116, 121, 99, 108, 97, 119, 99, 111, 100, 101, 99, 111, 108, 97, 99, 111, 111, 107, 99, 111, 115, 116,
    99, 114, 117, 120, 99, 117, 114, 108, 99, 117, 115, 112, 99, 121, 97, 110, 100, 97, 114, 107, 100, 97, 116, 97, 100, 97, 121, 115, 100, 101, 108, 105,
    100, 105, 99, 101, 100, 105, 101, 116, 100, 111, 111, 114, 100, 111, 119, 110, 100, 114, 97, 119, 100, 114, 111, 112, 100, 114, 117, 109, 100, 117, 108, 108,
    100, 117, 116, 121, 101, 97, 99, 104, 101, 97, 115, 121, 101, 99, 104, 111, 101, 100, 103, 101, 101, 112, 105, 99, 101, 118, 101, 110, 101, 120, 97, 109,
    101, 120, 105, 116, 101, 121, 101, 115, 102, 97, 99, 116, 102, 97, 105, 114, 102, 101, 114, 110, 102, 105, 103, 115, 102, 105, 108, 109, 102, 105, 115, 104,
    102, 105, 122, 122, 102, 108, 97, 112, 102, 108, 101, 119, 102, 108, 117, 120, 102, 111, 120, 121, 102, 114, 101, 101, 102, 114, 111, 103, 102, 117, 101, 108,
    102, 117, 110, 100, 103, 97, 108, 97, 103, 97, 109, 101, 103, 101, 97, 114, 103, 101, 109, 115, 103, 105, 102, 116, 103, 105, 114, 108, 103, 108, 111, 119,
    103, 111, 111, 100, 103, 114, 97, 121, 103, 114, 105, 109, 103, 117, 114, 117, 103, 117, 115, 104, 103, 121, 114, 111, 104, 97, 108, 102, 104, 97, 110, 103,
    104, 97, 114, 100, 104, 97, 119, 107, 104, 101, 97, 116, 104, 101, 108, 112, 104, 105, 103, 104, 104, 105, 108, 108, 104, 111, 108, 121, 104, 111, 112, 101,
    104, 111, 114, 110, 104, 117, 116, 115, 105, 99, 101, 100, 105, 100, 101, 97, 105, 100, 108, 101, 105, 110, 99, 104, 105, 110, 107, 121, 105, 110, 116, 111,
    105, 114, 105, 115, 105, 114, 111, 110, 105, 116, 101, 109, 106, 97, 100, 101, 106, 97, 122, 122, 106, 111, 105, 110, 106, 111, 108, 116, 106, 111, 119, 108,
    106, 117, 100, 111, 106, 117, 103, 115, 106, 117, 109, 112, 106, 117, 110, 107, 106, 117, 114, 121, 107, 101, 101, 112, 107, 101, 110, 111, 107, 101, 112, 116,
    107, 101, 121, 115, 107, 105, 99, 107, 107, 105, 108, 110, 107, 105, 110, 103, 107, 105, 116, 101, 107, 105, 119, 105, 107, 110, 111, 98, 108, 97, 109, 98,
    108, 97, 118, 97, 108, 97, 122, 121, 108, 101, 97, 102, 108, 101, 103, 115, 108, 105, 97, 114, 108, 105, 115, 116, 108, 105, 109, 112, 108, 105, 111, 110,
    108, 111, 103, 111, 108, 111, 117, 100, 108, 111, 118, 101, 108, 117, 97, 117, 108, 117, 99, 107, 108, 117, 110, 103, 109, 97, 105, 110, 109, 97, 110, 121,
    109, 97, 116, 104, 109, 97, 122, 101, 109, 101, 109, 111, 109, 101, 110, 117, 109, 101, 111, 119, 109, 105, 108, 100, 109, 105, 110, 116, 109, 105, 115, 115,
    109, 111, 110, 107, 110, 97, 105, 108, 110, 97, 118, 121, 110, 101, 101, 100, 110, 101, 119, 115, 110, 101, 120, 116, 110, 111, 111, 110, 110, 111, 116, 101,
    110, 117, 109, 98, 111, 98, 101, 121, 111, 98, 111, 101, 111, 109, 105, 116, 111, 110, 121, 120, 111, 112, 101, 110, 111, 118, 97, 108, 111, 119, 108, 115,
    112, 97, 105, 100, 112, 97, 114, 116, 112, 101, 99, 107, 112, 108, 97, 121, 112, 108, 117, 115, 112, 111, 101, 109, 112, 111, 111, 108, 112, 111, 115, 101,
    112, 117, 102, 102, 112, 117, 109, 97, 112, 117, 114, 114, 113, 117, 97, 100, 113, 117, 105, 122, 114, 97, 99, 101, 114, 97, 109, 112, 114, 101, 97, 108,
    114, 101, 100, 111, 114, 105, 99, 104, 114, 111, 97, 100, 114, 111, 99, 107, 114, 111, 111, 102, 114, 117, 98, 121, 114, 117, 105, 110, 114, 117, 110, 115,
    114, 117, 115, 116, 115, 97, 102, 101, 115, 97, 103, 97, 115, 99, 97, 114, 115, 101, 116, 115, 115, 105, 108, 107, 115, 107, 101, 119, 115, 108, 111, 116,
    115, 111, 97, 112, 115, 111, 108, 111, 115, 111, 110, 103, 115, 116, 117, 98, 115, 117, 114, 102, 115, 119, 97, 110, 116, 97, 99, 111, 116, 97, 115, 107,
    116, 97, 120, 105, 116, 101, 110, 116, 116, 105, 101, 100, 116, 105, 109, 101, 116, 105, 110, 121, 116, 111, 105, 108, 116, 111, 109, 98, 116, 111, 121, 115,
    116, 114, 105, 112, 116, 117, 110, 97, 116, 119, 105, 110, 117, 103, 108, 121, 117, 110, 100, 111, 117, 110, 105, 116, 117, 114, 103, 101, 117, 115, 101, 114,
    118, 97, 115, 116, 118, 101, 114, 121, 118, 101, 116, 111, 118, 105, 97, 108, 118, 105, 98, 101, 118, 105, 101, 119, 118, 105, 115, 97, 118, 111, 105, 100,
    118, 111, 119, 115, 119, 97, 108, 108, 119, 97, 110, 100, 119, 97, 114, 109, 119, 97, 115, 112, 119, 97, 118, 101, 119, 97, 120, 121, 119, 101, 98, 115,
    119, 104, 97, 116, 119, 104, 101, 110, 119, 104, 105, 122, 119, 111, 108, 102, 119, 111, 114, 107, 121, 97, 110, 107, 121, 97, 119, 110, 121, 101, 108, 108,
    121, 111, 103, 97, 121, 117, 114, 116, 122, 97, 112, 115, 122, 101, 115, 116, 122, 105, 110, 99, 122, 111, 110, 101, 122, 111, 111, 109, 122, 101, 114, 111
  >>

(* ------------------------------ characters ----------------------------- *)
LowerA == 97
UpperA == 65
SPACE == 32
HYPHEN == 45
NUL == 0

(* tolower that leaves capitals as they are *)
tolower_asis(c) == c

tolower(c) == IF c \in UpperA..(UpperA + 25) THEN c + (LowerA - UpperA) ELSE c
toupper(c) == IF c \in LowerA..(LowerA + 25) THEN c - (LowerA - UpperA) ELSE c

(* ------------------------------- styles -------------------------------- *)
bw_standard == "standard"
bw_uri == "uri"
bw_minimal == "minimal"
Styles == {bw_standard, bw_uri, bw_minimal}

(* the separator and word_len arguments bytewords_encode and
   bytewords_decode pass for each style *)
Separator(s) == IF s = bw_standard THEN SPACE ELSE IF s = bw_uri THEN HYPHEN ELSE NUL
WordLen(s) == IF s = bw_minimal THEN 2 ELSE 4

(* ------------------------------ checksum ------------------------------- *)
(* crc32.h: the standard reflected CRC-32, kept as two 16-bit halves
   <<hi, lo>> so that no intermediate value leaves the 32-bit range *)
RECURSIVE XorBits(_, _, _)
XorBits(a, b, n) ==
  IF n = 0 THEN 0 ELSE ((a + b) % 2) + 2 * XorBits(a \div 2, b \div 2, n - 1)

Xor16(a, b) == XorBits(a, b, 16)

PolyHi == 60856    \* 0xEDB8
PolyLo == 33568    \* 0x8320
Mask16 == 65535    \* 0xFFFF

CrcShift(c) ==
  LET hi  == c[1]
      lo  == c[2]
      nhi == hi \div 2
      nlo == (lo \div 2) + (hi % 2) * 32768
  IN  IF lo % 2 = 1 THEN <<Xor16(nhi, PolyHi), Xor16(nlo, PolyLo)>> ELSE <<nhi, nlo>>

RECURSIVE CrcRounds(_, _)
CrcRounds(c, n) == IF n = 0 THEN c ELSE CrcRounds(CrcShift(c), n - 1)

CrcByte(c, b) == CrcRounds(<<c[1], Xor16(c[2], b)>>, 8)

RECURSIVE CrcUpdate(_, _, _)
CrcUpdate(c, bytes, k) ==
  IF k > Len(bytes) THEN c ELSE CrcUpdate(CrcByte(c, bytes[k]), bytes, k + 1)

crc32(bytes) ==
  LET c == CrcUpdate(<<Mask16, Mask16>>, bytes, 1)
  IN  <<Xor16(c[1], Mask16), Xor16(c[2], Mask16)>>

(* htonl(crc32(bytes, len)) as it lies in memory: most significant byte first *)
bytewords_hash(bytes) ==
  LET c == crc32(bytes)
  IN  <<c[1] \div 256, c[1] % 256, c[2] \div 256, c[2] % 256>>

(* ---------------------------- word table ------------------------------- *)
dim == 26
TableLen == 256
NULL == 0
UNINIT == -2     \* a cell of malloc'ed memory nobody has written yet
ABSENT == -1

(* bytewords + i * 4, as the four characters at that address *)
get_word(index) == SubSeq(bytewords, index * 4 + 1, index * 4 + 4)

get_minimal_word(index) == <<bytewords[index * 4 + 1], bytewords[index * 4 + 4]>>

(* the offset taken from the first and the third letter *)
WordOffset_third(i) ==
  LET x == bytewords[i * 4 + 1] - LowerA
      y == bytewords[i * 4 + 3] - LowerA
  IN  y * dim + x

(* offset = y * dim + x of word i, lines 35-38 *)
WordOffset(i) ==
  LET x == bytewords[i * 4 + 1] - LowerA
      y == bytewords[i * 4 + 4] - LowerA
  IN  y * dim + x

array_len == dim * dim

(* malloc(array_len * sizeof(int16_t)): every cell uninitialized *)
FreshArray == [o \in 0..(array_len - 1) |-> UNINIT]

(* n iterations of the loop of lines 31-33, from i on *)
FillCells(arr, i, n) ==
  [o \in 0..(array_len - 1) |-> IF o >= i /\ o < i + n THEN ABSENT ELSE arr[o]]

(* the words whose first and last letters lead to cell o *)
WordsAt == [o \in 0..(array_len - 1) |-> {k \in 0..(TableLen - 1) : WordOffset(k) = o}]

(* n iterations of the loop of lines 34-40, from i on: where several of
   the words written share a cell, the last one written stays *)
SetWords(arr, i, n) ==
  [o \in 0..(array_len - 1) |->
     LET ws == {k \in WordsAt[o] : i <= k /\ k < i + n}
     IN  IF ws = {} THEN arr[o] ELSE CHOOSE k \in ws : \A j \in ws : j <= k]

(* the grid after lines 28-41 have run to completion *)
BuiltArray == SetWords(FillCells(FreshArray, 0, array_len), 0, TableLen)

(* lines 43-68 of decode_word on the grid arr; in_word holds at least
   word_len characters.  The result is [ok, index]. *)
Failed == [ok |-> FALSE, index |-> 0]

MiddleOk(in_word, value) ==
  /\ tolower(in_word[2]) = bytewords[value * 4 + 2]
  /\ tolower(in_word[3]) = bytewords[value * 4 + 3]

Lookup(arr, in_word, word_len) ==
  LET x == tolower(in_word[1]) - LowerA
      y == tolower(in_word[IF word_len = 4 THEN 4 ELSE 2]) - LowerA
  IN  IF ~(0 <= x /\ x < dim /\ 0 <= y /\ y < dim) THEN Failed
      ELSE LET value == arr[y * dim + x]
           IN  IF value = ABSENT THEN Failed
               ELSE IF word_len = 4 /\ ~MiddleOk(in_word, value) THEN Failed
               ELSE [ok |-> TRUE, index |-> value]

(* decode_word as a sequential caller sees it: the grid is complete when
   line 45 is reached *)
decode_word(in_word, word_len) == Lookup(BuiltArray, in_word, word_len)

(* ------------------------------ encoder -------------------------------- *)
add_crc(in_buf) == in_buf \o bytewords_hash(in_buf)

(* encode(): word, separator, word, ..., word; the last word keeps the
   NUL that get_word wrote, which ends the string *)
RECURSIVE encode(_, _)
encode(in_buf, separator) ==
  IF Len(in_buf) = 0 THEN <<>>
  ELSE IF Len(in_buf) = 1 THEN get_word(in_buf[1])
  ELSE get_word(in_buf[1]) \o <<separator>> \o encode(Tail(in_buf), separator)

encode_with_separator(in_buf, separator) == encode(add_crc(in_buf), separator)

RECURSIVE MinimalWords(_)
MinimalWords(bytes) ==
  IF Len(bytes) = 0 THEN <<>>
  ELSE get_minimal_word(bytes[1]) \o MinimalWords(Tail(bytes))

encode_minimal(in_buf) == MinimalWords(add_crc(in_buf))

bytewords_encode(s, in_buf) ==
  IF s = bw_minimal THEN encode_minimal(in_buf)
  ELSE encode_with_separator(in_buf, Separator(s))

(* ------------------------------ decoder -------------------------------- *)
(* the pieces of decode(), lines 148-189 *)
OutMaxSize(in_string, word_len) == Len(in_string) \div (word_len + 1) + 1

Rejected(out_max) == out_max < 5

LoopCond(in_string, p, word_len) ==
  p # Len(in_string) /\ Len(in_string) - p >= word_len

Token(in_string, p, word_len) == SubSeq(in_string, p + 1, p + word_len)

(* in_p after lines 164-167 *)
Advance(in_string, p, separator, word_len) ==
  LET q == p + word_len
  IN  IF separator # NUL /\ q # Len(in_string) /\ in_string[q + 1] = separator
      THEN q + 1 ELSE q

(* the length check one byte too lenient *)
TooShort_four(buf_len) == buf_len < 4

TooShort(buf_len) == buf_len < 5

Body(b) == SubSeq(b, 1, Len(b) - 4)

ChecksumOk(b) == bytewords_hash(Body(b)) = SubSeq(b, Len(b) - 3, Len(b))

(* the scan loop run to its end: [ok, buf, p], ok = FALSE when a token
   did not resolve *)
RECURSIVE Scan(_, _, _, _, _)
Scan(in_string, separator, word_len, p, b) ==
  IF ~LoopCond(in_string, p, word_len) THEN [ok |-> TRUE, buf |-> b, p |-> p]
  ELSE LET r == decode_word(Token(in_string, p, word_len), word_len)
       IN  IF ~r.ok THEN [ok |-> FALSE, buf |-> b, p |-> p]
           ELSE Scan(in_string, separator, word_len,
                     Advance(in_string, p, separator, word_len), Append(b, r.index))

(* decode() as a function of its input.  "undefined" is the run that writes
   past the end of buf; nothing is said about its result. *)
decode(in_string, separator, word_len) ==
  LET max == OutMaxSize(in_string, word_len)
      s   == Scan(in_string, separator, word_len, 0, <<>>)
  IN  IF Rejected(max) THEN [status |-> "fail", body |-> <<>>]
      ELSE IF Len(s.buf) > max THEN [status |-> "undefined", body |-> <<>>]
      ELSE IF ~s.ok \/ TooShort(Len(s.buf)) \/ ~ChecksumOk(s.buf)
           THEN [status |-> "fail", body |-> <<>>]
      ELSE [status |-> "ok", body |-> Body(s.buf)]

bytewords_decode(s, in_string) == decode(in_string, Separator(s), WordLen(s))

(* ------------------------------- inputs -------------------------------- *)
MaxPayloadLen == 2
MaxRawWords == 6

PayloadBytes == {0, 255}
SeqsUpTo(S, n) == UNION {[1..k -> S] : k \in 0..n}
Payloads == SeqsUpTo(PayloadBytes, MaxPayloadLen)

(* what may take the place of the character c: any small letter, a
   space, a hyphen, a digit, or c in the other letter case *)
Letters == LowerA..(LowerA + 25)
TamperChars(c) == (Letters \cup {SPACE, HYPHEN, 48, toupper(c)}) \ {c}

(* what a caller may leave after the last token: "a", " a", "-a", "abc" *)
Tails == {<<97>>, <<SPACE, 97>>, <<HYPHEN, 97>>, <<97, 98, 99>>}

(* strings that no encoder produced: a unit repeated, then a tail *)
RawUnits == {get_word(0), get_word(0) \o <<SPACE>>, get_word(0) \o <<HYPHEN>>,
             get_minimal_word(0), get_minimal_word(255) \o <<SPACE>>}
RawTails == Tails \cup {<<>>, <<SPACE>>}

RECURSIVE Repeat(_, _)
Repeat(u, n) == IF n = 0 THEN <<>> ELSE u \o Repeat(u, n - 1)

Upper(txt) == [k \in 1..Len(txt) |-> toupper(txt[k])]

(* ------------------------------- state --------------------------------- *)
VARIABLES
  pc,            \* codec caller: "start", "ready", "scan", "done", "crashed"
  style,         \* the bw_style of the call
  payload,       \* the bytes given to bytewords_encode
  text,          \* the string given to bytewords_decode
  mut,           \* how text came about: "none", "tamper", "upper", "tail", "raw"
  in_p,          \* decode: in_p - in_string
  buf,           \* decode: the bytes written through out_p, in order
  out_max_size,  \* decode: the size of the malloc'ed buf
  out_buf,       \* the caller's *out_buf
  out_len,       \* the caller's *out_len
  result,        \* the value bytewords_decode returned, once pc = "done"
  array,         \* decode_word's static pointer: NULL or an index into heap
  heap,          \* the grids malloc'ed so far, in order of allocation
  tpc,           \* per thread: its place in decode_word
  ti,            \* per thread: the loop counter i
  tres           \* per thread: the token it was given and what it got

vars == <<pc, style, payload, text, mut, in_p, buf, out_max_size, out_buf,
          out_len, result, array, heap, tpc, ti, tres>>

codecVars == <<pc, style, payload, text, mut, in_p, buf, out_max_size, out_buf,
               out_len, result>>
gridVars == <<array, heap>>
threadVars == <<tpc, ti, tres>>

(* what the caller's out_buf and out_len hold before the call *)
CallerBuf == <<-1>>
CallerLen == -1

Threads == {1, 2}
NoResult == [word |-> <<>>, ok |-> FALSE, index |-> 0, complete |-> TRUE]

InitCodec ==
  /\ pc = "start"
  /\ style = bw_standard
  /\ payload = <<>>
  /\ text = <<>>
  /\ mut = "none"
  /\ in_p = 0
  /\ buf = <<>>
  /\ out_max_size = 0
  /\ out_buf = CallerBuf
  /\ out_len = CallerLen
  /\ result = FALSE

InitGrid ==
  /\ array = NULL
  /\ heap = <<>>

Init ==
  /\ InitCodec
  /\ InitGrid
  /\ tpc = [t \in Threads |-> "off"]
  /\ ti = [t \in Threads |-> 0]
  /\ tres = [t \in Threads |-> NoResult]

(* --------------------------- codec: the caller ------------------------- *)
(* bytewords_encode(style, payload), lines 135-146 *)
EncodeCall ==
  /\ pc = "start"
  /\ \E s \in Styles, b \in Payloads :
       /\ style' = s
       /\ payload' = b
       /\ text' = bytewords_encode(s, b)
  /\ pc' = "ready"
  /\ UNCHANGED <<mut, in_p, buf, out_max_size, out_buf, out_len, result>>
  /\ UNCHANGED <<gridVars, threadVars>>

(* the caller hands bytewords_decode a string of its own *)
RawInput ==
  /\ pc = "start"
  /\ \E s \in Styles, u \in RawUnits, n \in 0..MaxRawWords, tl \in RawTails :
       /\ style' = s
       /\ text' = Repeat(u, n) \o tl
  /\ mut' = "raw"
  /\ pc' = "ready"
  /\ UNCHANGED <<payload, in_p, buf, out_max_size, out_buf, out_len, result>>
  /\ UNCHANGED <<gridVars, threadVars>>

(* one character of an encoding is replaced by a different one *)
Tamper ==
  /\ pc = "ready"
  /\ mut = "none"
  /\ \E k \in 1..Len(text) : \E c \in TamperChars(text[k]) :
       text' = [text EXCEPT ![k] = c]
  /\ mut' = "tamper"
  /\ UNCHANGED <<pc, style, payload, in_p, buf, out_max_size, out_buf, out_len, result>>
  /\ UNCHANGED <<gridVars, threadVars>>

(* an encoding is written in capitals *)
UpperCase ==
  /\ pc = "ready"
  /\ mut = "none"
  /\ text' = Upper(text)
  /\ mut' = "upper"
  /\ UNCHANGED <<pc, style, payload, in_p, buf, out_max_size, out_buf, out_len, result>>
  /\ UNCHANGED <<gridVars, threadVars>>

(* characters are left after an encoding *)
AppendTail ==
  /\ pc = "ready"
  /\ mut = "none"
  /\ \E tl \in Tails : text' = text \o tl
  /\ mut' = "tail"
  /\ UNCHANGED <<pc, style, payload, in_p, buf, out_max_size, out_buf, out_len, result>>
  /\ UNCHANGED <<gridVars, threadVars>>

(* --------------------------- codec: decode() --------------------------- *)
(* lines 149-156: the size of buf, the early return, the cursors *)
DecodeStart ==
  /\ pc = "ready"
  /\ out_max_size' = OutMaxSize(text, WordLen(style))
  /\ IF Rejected(out_max_size')
     THEN pc' = "done" /\ result' = FALSE
     ELSE pc' = "scan" /\ UNCHANGED result
  /\ in_p' = 0
  /\ buf' = <<>>
  /\ UNCHANGED <<style, payload, text, mut, out_buf, out_len>>
  /\ UNCHANGED <<gridVars, threadVars>>

(* one iteration of the loop of lines 158-168.  decode_word builds the grid
   on the first call of the process.  A write at or past buf + out_max_size
   is undefined: it lands in memory next to buf and the scan goes on, or
   the process dies. *)
DecodeStep ==
  /\ pc = "scan"
  /\ LoopCond(text, in_p, WordLen(style))
  /\ IF array = NULL
     THEN heap' = Append(heap, BuiltArray) /\ array' = Len(heap) + 1
     ELSE UNCHANGED <<array, heap>>
  /\ LET r == Lookup(heap'[array'], Token(text, in_p, WordLen(style)), WordLen(style))
     IN  IF ~r.ok
         THEN /\ pc' = "done"
              /\ result' = FALSE
              /\ UNCHANGED <<in_p, buf>>
         ELSE /\ buf' = Append(buf, r.index)
              /\ in_p' = Advance(text, in_p, Separator(style), WordLen(style))
              /\ \/ pc' = "scan"
                 \/ Len(buf) >= out_max_size /\ pc' = "crashed"
              /\ UNCHANGED result
  /\ UNCHANGED <<style, payload, text, mut, out_max_size, out_buf, out_len>>
  /\ UNCHANGED threadVars

(* DecodeFinish storing buf_len, not body_len, in *out_len *)
DecodeFinish_buf_len ==
  /\ pc = "scan"
  /\ ~LoopCond(text, in_p, WordLen(style))
  /\ \/ /\ pc' = "done"
        /\ IF TooShort(Len(buf)) \/ ~ChecksumOk(buf)
           THEN result' = FALSE /\ UNCHANGED <<out_buf, out_len>>
           ELSE /\ out_buf' = buf
                /\ out_len' = Len(buf)
                /\ result' = TRUE
     \/ /\ Len(buf) > out_max_size
        /\ pc' = "crashed"
        /\ UNCHANGED <<out_buf, out_len, result>>
  /\ UNCHANGED <<style, payload, text, mut, in_p, buf, out_max_size>>
  /\ UNCHANGED <<gridVars, threadVars>>

(* DecodeFinish storing *out_buf and *out_len before the checksum is
   compared *)
DecodeFinish_early_store ==
  /\ pc = "scan"
  /\ ~LoopCond(text, in_p, WordLen(style))
  /\ \/ /\ pc' = "done"
        /\ IF TooShort(Len(buf))
           THEN result' = FALSE /\ UNCHANGED <<out_buf, out_len>>
           ELSE /\ out_buf' = Body(buf)
                /\ out_len' = Len(buf) - 4
                /\ result' = ChecksumOk(buf)
     \/ /\ Len(buf) > out_max_size
        /\ pc' = "crashed"
        /\ UNCHANGED <<out_buf, out_len, result>>
  /\ UNCHANGED <<style, payload, text, mut, in_p, buf, out_max_size>>
  /\ UNCHANGED <<gridVars, threadVars>>

(* lines 170-188: the length check, the checksum, the results.  After a
   write past buf, free() and the return may also end the process. *)
DecodeFinish ==
  /\ pc = "scan"
  /\ ~LoopCond(text, in_p, WordLen(style))
  /\ \/ /\ pc' = "done"
        /\ IF TooShort(Len(buf)) \/ ~ChecksumOk(buf)
           THEN result' = FALSE /\ UNCHANGED <<out_buf, out_len>>
           ELSE /\ out_buf' = Body(buf)
                /\ out_len' = Len(buf) - 4
                /\ result' = TRUE
     \/ /\ Len(buf) > out_max_size
        /\ pc' = "crashed"
        /\ UNCHANGED <<out_buf, out_len, result>>
  /\ UNCHANGED <<style, payload, text, mut, in_p, buf, out_max_size>>
  /\ UNCHANGED <<gridVars, threadVars>>

(* ------------------- decode_word, statement by statement --------------- *)
(* A thread is "off" (it does not exist), "idle" (outside decode_word) or
   at one of the places of decode_word: "check" (line 28), "alloc" (line
   30), "fill" (lines 31-33), "words" (lines 34-40), "lookup" (lines
   45-68).  Every access to array reads the static pointer, as written. *)
Min(a, b) == IF a < b THEN a ELSE b

(* what an uninitialized int16_t may read as *)
Garbage == {ABSENT, 0, TableLen - 1}

(* the grids a read of cell (x, y) of arr may see *)
Reads(arr, in_word, word_len) ==
  LET x == tolower(in_word[1]) - LowerA
      y == tolower(in_word[IF word_len = 4 THEN 4 ELSE 2]) - LowerA
      o == y * dim + x
  IN  IF 0 <= x /\ x < dim /\ 0 <= y /\ y < dim /\ arr[o] = UNINIT
      THEN {[arr EXCEPT ![o] = v] : v \in Garbage}
      ELSE {arr}

Call(t) ==
  /\ tpc[t] = "idle"
  /\ tpc' = [tpc EXCEPT ![t] = "check"]
  /\ tres' = [tres EXCEPT ![t] = NoResult]
  /\ UNCHANGED <<ti, gridVars, codecVars>>

(* line 28: if(array == NULL) *)
CheckArray(t) ==
  /\ tpc[t] = "check"
  /\ tpc' = [tpc EXCEPT ![t] = IF array = NULL THEN "alloc" ELSE "lookup"]
  /\ UNCHANGED <<ti, tres, gridVars, codecVars>>

(* line 30: array = malloc(...) *)
AllocArray(t) ==
  /\ tpc[t] = "alloc"
  /\ heap' = Append(heap, FreshArray)
  /\ array' = Len(heap) + 1
  /\ tpc' = [tpc EXCEPT ![t] = "fill"]
  /\ ti' = [ti EXCEPT ![t] = 0]
  /\ UNCHANGED <<tres, codecVars>>

(* lines 31-33: up to n iterations without another thread running *)
FillLoop(t, n) ==
  /\ tpc[t] = "fill"
  /\ LET m == Min(n, array_len - ti[t])
     IN  /\ heap' = [heap EXCEPT ![array] = FillCells(@, ti[t], m)]
         /\ IF ti[t] + m = array_len
            THEN /\ tpc' = [tpc EXCEPT ![t] = "words"]
                 /\ ti' = [ti EXCEPT ![t] = 0]
            ELSE /\ ti' = [ti EXCEPT ![t] = @ + m]
                 /\ UNCHANGED tpc
  /\ UNCHANGED <<array, tres, codecVars>>

(* lines 34-40: up to n iterations without another thread running *)
WordLoop(t, n) ==
  /\ tpc[t] = "words"
  /\ LET m == Min(n, TableLen - ti[t])
     IN  /\ heap' = [heap EXCEPT ![array] = SetWords(@, ti[t], m)]
         /\ IF ti[t] + m = TableLen
            THEN /\ tpc' = [tpc EXCEPT ![t] = "lookup"]
                 /\ ti' = [ti EXCEPT ![t] = 0]
            ELSE /\ ti' = [ti EXCEPT ![t] = @ + m]
                 /\ UNCHANGED tpc
  /\ UNCHANGED <<array, tres, codecVars>>

(* lines 45-68 on the grid as it is now; the thread returns *)
LookupStep(t, in_word, word_len) ==
  /\ tpc[t] = "lookup"
  /\ \E arr \in Reads(heap[array], in_word, word_len) :
       LET r == Lookup(arr, in_word, word_len)
       IN  tres' = [tres EXCEPT ![t] = [word |-> in_word, ok |-> r.ok, index |-> r.index,
                                        complete |-> heap[array] = BuiltArray]]
  /\ tpc' = [tpc EXCEPT ![t] = "idle"]
  /\ UNCHANGED <<ti, gridVars, codecVars>>

(* ------------------------------ one thread ----------------------------- *)
SeqTokens ==
  {get_word(v) : v \in 0..(TableLen - 1)}
    \cup {get_minimal_word(v) : v \in 0..(TableLen - 1)}
    \cup {Upper(get_word(0)), <<97, 98, 108, 97>>, <<97, 97, 97, 101>>, <<SPACE, 97>>, <<122, 122>>}

InitSeq ==
  /\ InitCodec
  /\ InitGrid
  /\ tpc = [t \in Threads |-> IF t = 1 THEN "idle" ELSE "off"]
  /\ ti = [t \in Threads |-> 0]
  /\ tres = [t \in Threads |-> NoResult]

NextSeq ==
  \E t \in Threads :
    \/ Call(t)
    \/ CheckArray(t)
    \/ AllocArray(t)
    \/ FillLoop(t, 1)
    \/ WordLoop(t, 1)
    \/ \E w \in SeqTokens : LookupStep(t, w, Len(w))

SpecSeq == InitSeq /\ [][NextSeq]_vars

(* ----------------------------- two threads ----------------------------- *)
ConcTokens == {get_word(0), get_word(TableLen - 1), get_minimal_word(1), <<122, 122>>}

InitConc ==
  /\ InitCodec
  /\ InitGrid
  /\ tpc = [t \in Threads |-> "idle"]
  /\ ti = [t \in Threads |-> 0]
  /\ tres = [t \in Threads |-> NoResult]

(* each loop runs as one step: every behaviour is one of the program's *)
NextConc ==
  \E t \in Threads :
    \/ Call(t)
    \/ CheckArray(t)
    \/ AllocArray(t)
    \/ FillLoop(t, array_len)
    \/ WordLoop(t, TableLen)
    \/ \E w \in ConcTokens : LookupStep(t, w, Len(w))

SpecConc == InitConc /\ [][NextConc]_vars

Next ==
  \/ EncodeCall
  \/ RawInput
  \/ Tamper
  \/ UpperCase
  \/ AppendTail
  \/ DecodeStart
  \/ DecodeStep
  \/ DecodeFinish

Spec == Init /\ [][Next]_vars

(* ------------------------------ properties ----------------------------- *)
Returned == pc = "done"
Succeeded == pc = "done" /\ result
OutputsUntouched == out_buf = CallerBuf /\ out_len = CallerLen
ReturnedExactly(b) == Succeeded /\ out_buf = b /\ out_len = Len(b)

(* C1: round trip.  Decoding the unmodified output of bytewords_encode for
   the same style returns, and returns exactly the payload that was
   encoded, for every payload (the empty one too) and every style. *)
C1_RoundTrip ==
  (mut = "none" /\ pc \in {"done", "crashed"}) => ReturnedExactly(payload)

(* C2: tamper detection.  In the standard and uri styles, decoding an
   encoding in which one character was replaced by a different one stays
   inside its buffer and either fails or returns exactly the payload. *)
C2_TamperDetected ==
  (mut = "tamper" /\ style \in {bw_standard, bw_uri}) =>
    /\ pc # "crashed"
    /\ Len(buf) <= out_max_size
    /\ Succeeded => ReturnedExactly(payload)

(* a tampered encoding whose first tokens resolved and which was refused *)
C2_Witness ==
  /\ Returned /\ ~result
  /\ mut = "tamper"
  /\ style = bw_uri
  /\ Len(buf) >= 1

(* C3: empty payload.  bytewords_encode(standard, <<>>) is exactly four
   table words separated by single spaces, and decoding it succeeds with
   the empty byte sequence. *)
FourWords(txt) ==
  /\ Len(txt) = 19
  /\ \A k \in {5, 10, 15} : txt[k] = SPACE
  /\ \A k \in {0, 5, 10, 15} : decode_word(SubSeq(txt, k + 1, k + 4), 4).ok

C3_EmptyPayload ==
  (mut = "none" /\ style = bw_standard /\ payload = <<>> /\ pc # "start") =>
    /\ FourWords(text)
    /\ Returned => ReturnedExactly(<<>>)

(* C4: too short.  A standard-style string whose scan resolves fewer than
   five bytes is refused: the call returns false and hands out nothing. *)
C4_TooShortFails ==
  (Returned /\ style = bw_standard /\ Len(Scan(text, SPACE, 4, 0, <<>>).buf) < 5) =>
    ~result /\ OutputsUntouched

(* four tokens resolved, the scan ran to the end of the string, refused *)
C4_Witness ==
  /\ Returned /\ ~result
  /\ style = bw_standard
  /\ Len(buf) = 4
  /\ ~LoopCond(text, in_p, 4)

(* C5: trailing leftover.  When the scan has consumed the last full token
   and its separator and a non-empty remainder shorter than one token is
   left, the call fails. *)
Leftover ==
  /\ ~LoopCond(text, in_p, WordLen(style))
  /\ in_p < Len(text)

C5_LeftoverFails == (Returned /\ Leftover) => ~result

(* C6: concurrent first use.  No thread reads a cell of the grid before
   all 26*26 cells hold their final values, and the grid is allocated and
   built once. *)
C6_GridBuiltOnce ==
  /\ \A t \in Threads : tres[t].complete
  /\ Len(heap) <= 1

(* C7: all or nothing.  Unless bytewords_decode has returned true, the
   caller's out_buf and out_len hold what they held before the call; it
   returns true only with at least five bytes scanned and the checksum
   verified, and then out_buf and out_len are the body and its length. *)
C7_AllOrNothing ==
  /\ ~Succeeded => OutputsUntouched
  /\ Succeeded =>
       /\ ~Rejected(out_max_size)
       /\ ~TooShort(Len(buf))
       /\ ChecksumOk(buf)
       /\ out_buf = Body(buf)
       /\ out_len = Len(buf) - 4

(* five or more bytes scanned, the checksum refused *)
C7_Witness ==
  /\ Returned /\ ~result
  /\ Len(buf) >= 5
  /\ ~LoopCond(text, in_p, WordLen(style))
  /\ ~ChecksumOk(buf)

(* C8: case-insensitive matching.  decode_word gives the same outcome for
   a token and for each spelling of it in other letter case, and
   bytewords_decode gives the same result for a string and for the string
   in capitals (as far as the result is defined). *)
CaseVariants(w) ==
  {[k \in 1..Len(w) |-> IF k \in S THEN toupper(w[k]) ELSE tolower(w[k])] :
     S \in SUBSET (1..Len(w))}

C8_CaseInsensitive ==
  /\ (pc = "scan" /\ LoopCond(text, in_p, WordLen(style))) =>
       LET w == Token(text, in_p, WordLen(style))
       IN  \A v \in CaseVariants(w) :
             decode_word(v, WordLen(style)) = decode_word(w, WordLen(style))
  /\ pc = "ready" => bytewords_decode(style, Upper(text)) = bytewords_decode(style, text)

(* an encoding in capitals whose first token has been resolved *)
C8_Witness ==
  /\ pc = "scan"
  /\ mut = "upper"
  /\ Len(buf) >= 1
  /\ LoopCond(text, in_p, WordLen(style))

(* C9: token resolution inverts the word table.  The 256 words lead to 256
   different cells; while the grid is built every word is written to a
   cell that no word has been written to, and stays there; on the built
   grid the word and the minimal word of every byte value v resolve to v. *)
C9_TableInverts ==
  /\ Cardinality({WordOffset(v) : v \in 0..(TableLen - 1)}) = TableLen
  /\ \A t \in Threads : tpc[t] = "words" =>
       /\ heap[array][WordOffset(ti[t])] = ABSENT
       /\ \A k \in 0..(ti[t] - 1) : heap[array][WordOffset(k)] = k
  /\ \A t \in Threads : tres[t].word # <<>> =>
       \A v \in 0..(TableLen - 1) :
         (tres[t].word \in {get_word(v), get_minimal_word(v)}) =>
           tres[t].ok /\ tres[t].index = v

(* the grid was built and the last minimal word resolved *)
C9_Witness ==
  /\ tres[1].word = get_minimal_word(TableLen - 1)
  /\ tres[1].ok
  /\ heap[array] = BuiltArray

(* C10: decoder buffer bound.  The number of bytes written through out_p
   never exceeds out_max_size, the size of the buffer. *)
C10_WithinBuffer == Len(buf) <= out_max_size
====
